---- MODULE Spec2Model ----
(***************************************************************************)
(* Model of agrmt.agreement (van der Eijk's agreement A) and of its helper *)
(* _pattern_agreement, src/agrmt/agreement.py.                             *)
(*                                                                         *)
(* The arithmetic of the code is IEEE-754 binary64 (Python float and       *)
(* numpy.float64): every division, subtraction, multiplication and         *)
(* addition below rounds its exact result to 53 significant bits, ties to  *)
(* even.  A 53-bit significand does not fit TLC's integers, so it is kept  *)
(* as a little-endian sequence of 14-bit limbs.                            *)
(***************************************************************************)
EXTENDS Integers, Sequences, FiniteSets, TLC

\* ---------------------------------------------------------------- bounds
\* Dense inputs: every vector of length 0..MaxLen over -MaxNeg..MaxVal.
MaxLen == 3
MaxVal == 3
MaxNeg == 1
\* Sparse inputs: vectors of length MaxLen+1..MaxK with at most MaxSupport
\* non-zero entries, each in 1..MaxCount.
MaxK == 8
MaxCount == 2
MaxSupport == 2
\* A call on a valid vector is repeated on the vector scaled by 2..MaxScale.
MaxScale == 2

\* ------------------------------------------------- natural numbers in limbs
LimbBits == 14
Base == 16384
MantBits == 53
\* Limbs of the fraction computed by a division: 84 bits, so that a quotient
\* of integers below 2^17 always has more than MantBits + 2 significant bits.
FracLimbs == 6

Pow2(n) == 2 ^ n

Limb(N, i) == IF i >= 1 /\ i <= Len(N) THEN N[i] ELSE 0

RECURSIVE Trim(_)
Trim(N) == IF N = <<>> THEN N
           ELSE IF N[Len(N)] = 0 THEN Trim(SubSeq(N, 1, Len(N) - 1))
           ELSE N

RECURSIVE FromInt(_)
FromInt(n) == IF n = 0 THEN <<>> ELSE <<n % Base>> \o FromInt(n \div Base)

RECURSIVE BitLenLimb(_)
BitLenLimb(x) == IF x = 0 THEN 0 ELSE 1 + BitLenLimb(x \div 2)

BitLen(N) == IF N = <<>> THEN 0
             ELSE LimbBits * (Len(N) - 1) + BitLenLimb(N[Len(N)])

BitAt(N, b) == (Limb(N, (b \div LimbBits) + 1) \div Pow2(b % LimbBits)) % 2

\* some bit of N below bit b is set
LowNonzero(N, b) ==
    \/ \E i \in 1..Len(N) : i <= b \div LimbBits /\ N[i] # 0
    \/ Limb(N, (b \div LimbBits) + 1) % Pow2(b % LimbBits) # 0

Shr(N, b) ==
    LET q == b \div LimbBits
        r == b % LimbBits
    IN  IF Len(N) <= q THEN <<>>
        ELSE Trim([i \in 1..(Len(N) - q) |->
                     (N[i + q] \div Pow2(r))
                     + (Limb(N, i + q + 1) % Pow2(r)) * Pow2(LimbBits - r)])

Shl(N, b) ==
    LET q == b \div LimbBits
        r == b % LimbBits
    IN  IF N = <<>> THEN <<>>
        ELSE Trim([i \in 1..(Len(N) + q + 1) |->
                     IF i <= q THEN 0
                     ELSE (Limb(N, i - q) % Pow2(LimbBits - r)) * Pow2(r)
                          + (Limb(N, i - q - 1) \div Pow2(LimbBits - r))])

RECURSIVE AddFrom(_, _, _, _)
AddFrom(A, B, i, carry) ==
    IF i > Len(A) /\ i > Len(B)
    THEN (IF carry = 0 THEN <<>> ELSE <<carry>>)
    ELSE LET t == Limb(A, i) + Limb(B, i) + carry
         IN  <<t % Base>> \o AddFrom(A, B, i + 1, t \div Base)

Add(A, B) == AddFrom(A, B, 1, 0)

\* A - B for A >= B
RECURSIVE SubFrom(_, _, _, _)
SubFrom(A, B, i, borrow) ==
    IF i > Len(A) THEN <<>>
    ELSE LET t == Limb(A, i) - Limb(B, i) - borrow
         IN  IF t < 0 THEN <<t + Base>> \o SubFrom(A, B, i + 1, 1)
             ELSE <<t>> \o SubFrom(A, B, i + 1, 0)

Sub(A, B) == Trim(SubFrom(A, B, 1, 0))

\* -1, 0, 1 as A <, =, > B
RECURSIVE CmpFrom(_, _, _)
CmpFrom(A, B, i) ==
    IF i = 0 THEN 0
    ELSE IF A[i] < B[i] THEN -1
    ELSE IF A[i] > B[i] THEN 1
    ELSE CmpFrom(A, B, i - 1)

Cmp(A, B) == IF Len(A) < Len(B) THEN -1
             ELSE IF Len(A) > Len(B) THEN 1
             ELSE CmpFrom(A, B, Len(A))

\* column c (from 0) of the schoolbook product
RECURSIVE Column(_, _, _, _)
Column(A, B, c, i) ==
    IF i > Len(A) THEN 0
    ELSE Limb(A, i) * Limb(B, c - i + 2) + Column(A, B, c, i + 1)

RECURSIVE MulFrom(_, _, _, _)
MulFrom(A, B, c, carry) ==
    IF c > Len(A) + Len(B) - 2
    THEN FromInt(carry)
    ELSE LET t == Column(A, B, c, 1) + carry
         IN  <<t % Base>> \o MulFrom(A, B, c + 1, t \div Base)

Mul(A, B) == IF A = <<>> \/ B = <<>> THEN <<>> ELSE Trim(MulFrom(A, B, 0, 0))

\* ------------------------------------------------------- binary64 values
\* A float is NaN, an infinity, or (-1)^s * m * 2^e with m = <<>> (zero) or
\* a 53-bit significand.  The exponents met here (|value| between 2^-60 and
\* 2) are far from the subnormal and overflow ranges of binary64.
NaN == [k |-> "nan", s |-> 0, m |-> <<>>, e |-> 0]
Inf(s) == [k |-> "inf", s |-> s, m |-> <<>>, e |-> 0]
Zero(s) == [k |-> "fin", s |-> s, m |-> <<>>, e |-> 0]
Fin(s, m, e) == [k |-> "fin", s |-> s, m |-> m, e |-> e]

IsNaN(x) == x.k = "nan"
IsFinite(x) == x.k = "fin"
IsZero(x) == x.k = "fin" /\ x.m = <<>>

\* (-1)^s * (N + f) * 2^e rounded to nearest, ties to even, where 0 <= f < 1
\* and f # 0 iff sticky (sticky only with more than MantBits + 1 bits in N)
RoundF(s, N, e, sticky) ==
    LET L == BitLen(N) IN
    IF N = <<>> THEN Zero(s)
    ELSE IF L <= MantBits THEN Fin(s, Shl(N, MantBits - L), e - (MantBits - L))
    ELSE LET sh == L - MantBits
             M == Shr(N, sh)
             guard == BitAt(N, sh - 1) = 1
             st == sticky \/ LowNonzero(N, sh - 1)
             up == guard /\ (st \/ M[1] % 2 = 1)
             M1 == IF up THEN Add(M, <<1>>) ELSE M
         IN  IF BitLen(M1) > MantBits
             THEN Fin(s, Shr(M1, 1), e + sh + 1)
             ELSE Fin(s, M1, e + sh)

Abs(x) == IF x < 0 THEN 0 - x ELSE x

\* float(n) of an integer n
FloatOfInt(n) == RoundF(IF n < 0 THEN 1 ELSE 0, FromInt(Abs(n)), 0, FALSE)

\* the FracLimbs limbs after the point of rem / b, most significant first,
\* followed by the last remainder
RECURSIVE FracDigits(_, _, _)
FracDigits(rem, b, n) ==
    IF n = 0 THEN <<rem>>
    ELSE <<(rem * Base) \div b>> \o FracDigits((rem * Base) % b, b, n - 1)

Reverse(S) == [i \in 1..Len(S) |-> S[Len(S) + 1 - i]]

\* a / b correctly rounded, for integers a and b # 0 (|b| < 2^17)
DivRound(a, b) ==
    LET s == IF (a < 0) # (b < 0) THEN 1 ELSE 0
        ua == Abs(a)
        ub == Abs(b)
        d == FracDigits(ua % ub, ub, FracLimbs)
        N == Trim(Reverse(SubSeq(d, 1, FracLimbs)) \o FromInt(ua \div ub))
    IN  IF a = 0 THEN Zero(0)
        ELSE RoundF(s, N, 0 - FracLimbs * LimbBits, d[FracLimbs + 1] # 0)

\* a / b of two Python ints: ZeroDivisionError when b = 0
PyIntDiv(a, b) == IF b = 0 THEN [err |-> TRUE, val |-> NaN]
                  ELSE [err |-> FALSE, val |-> DivRound(a, b)]

\* a / b of numpy scalars holding the integers a and b: nan or inf when b = 0
NpDiv(a, b) == IF b # 0 THEN DivRound(a, b)
               ELSE IF a = 0 THEN NaN
               ELSE Inf(IF a < 0 THEN 1 ELSE 0)

FNeg(x) == [x EXCEPT !.s = 1 - x.s]

FMul(x, y) ==
    LET s == IF x.s # y.s THEN 1 ELSE 0 IN
    IF IsNaN(x) \/ IsNaN(y) THEN NaN
    ELSE IF x.k = "inf" \/ y.k = "inf"
         THEN (IF IsZero(x) \/ IsZero(y) THEN NaN ELSE Inf(s))
    ELSE IF IsZero(x) \/ IsZero(y) THEN Zero(s)
    ELSE RoundF(s, Mul(x.m, y.m), x.e + y.e, FALSE)

FAdd(x, y) ==
    IF IsNaN(x) \/ IsNaN(y) THEN NaN
    ELSE IF x.k = "inf" /\ y.k = "inf" THEN (IF x.s = y.s THEN x ELSE NaN)
    ELSE IF x.k = "inf" THEN x
    ELSE IF y.k = "inf" THEN y
    ELSE IF IsZero(x) /\ IsZero(y) THEN Zero(IF x.s = 1 /\ y.s = 1 THEN 1 ELSE 0)
    ELSE IF IsZero(x) THEN y
    ELSE IF IsZero(y) THEN x
    ELSE LET e == IF x.e < y.e THEN x.e ELSE y.e
             X == Shl(x.m, x.e - e)
             Y == Shl(y.m, y.e - e)
             c == Cmp(X, Y)
         IN  IF x.s = y.s THEN RoundF(x.s, Add(X, Y), e, FALSE)
             ELSE IF c = 0 THEN Zero(0)
             ELSE IF c > 0 THEN RoundF(x.s, Sub(X, Y), e, FALSE)
             ELSE RoundF(y.s, Sub(Y, X), e, FALSE)

FSub(x, y) == FAdd(x, FNeg(y))

\* x <= y of two finite floats
FLe(x, y) ==
    LET e == IF x.e < y.e THEN x.e ELSE y.e
        c == Cmp(Shl(x.m, x.e - e), Shl(y.m, y.e - e))
    IN  IF IsZero(x) /\ IsZero(y) THEN TRUE
        ELSE IF IsZero(x) THEN y.s = 0
        ELSE IF IsZero(y) THEN x.s = 1
        ELSE IF x.s # y.s THEN x.s = 1
        ELSE IF x.s = 0 THEN c <= 0
        ELSE c >= 0

One == FloatOfInt(1)
MinusOne == FloatOfInt(-1)

\* ------------------------------------------------------ _pattern_agreement
RECURSIVE SumSeq(_)
SumSeq(S) == IF S = <<>> THEN 0 ELSE S[1] + SumSeq(Tail(S))

MaxOf(S) == CHOOSE x \in {S[i] : i \in 1..Len(S)} : \A i \in 1..Len(S) : S[i] <= x
MinOf(S) == CHOOSE x \in {S[i] : i \in 1..Len(S)} : \A i \in 1..Len(S) : x <= S[i]

\* the positions (from 0) where p is x
Where(p, x) == {i \in 0..(Len(p) - 1) : p[i + 1] = x}

\* the index triplets i < j < m of the three nested loops whose entries
\* are x, y, z
Triplets(p, x, y, z) ==
    {t \in Where(p, x) \X Where(p, y) \X Where(p, z) : t[1] < t[2] /\ t[2] < t[3]}

\* bimodal triplets, pattern 1-0-1
Tdu(p) == Cardinality(Triplets(p, 1, 0, 1))

\* unimodal triplets, patterns 1-1-0 and 0-1-1
Tu(p) == Cardinality(Triplets(p, 1, 1, 0)) + Cardinality(Triplets(p, 0, 1, 1))

\* U of equation (2); div is TRUE when the quotient is evaluated
UValue(k, tu, tdu) ==
    IF tu + tdu = 0
    THEN [div |-> FALSE, zero |-> FALSE, val |-> Zero(0)]
    ELSE LET q == PyIntDiv((k - 2) * tu - (k - 1) * tdu, (k - 2) * (tu + tdu))
         IN  [div |-> TRUE, zero |-> q.err, val |-> q.val]

\* 1 - (s - 1) / (k - 1)
Spread(s, k) == FSub(One, NpDiv(s - 1, k - 1))

\* the two edge cases, in the order of the code
NaNFallback(a) == IF IsNaN(a) THEN Zero(0) ELSE a

\* mutants: the override left out; the override on any non-empty pattern
SingleOverride_Dropped(p, a) == a

SingleOverride_AtLeastOne(p, a) == IF SumSeq(p) >= 1 THEN One ELSE a

SingleOverride(p, a) == IF SumSeq(p) = 1 THEN One ELSE a

NoError == [type |-> "none", msg |-> ""]
PatternError ==
    [type |-> "ValueError",
     msg |-> "Input is not a pattern vector (only 0 and 1 are allowed)."]
ZeroDivisionError == [type |-> "ZeroDivisionError", msg |-> "division by zero"]

\* the result of one call: the exception raised (or none), the value
\* returned, whether a zero divisor was evaluated and whether the NaN
\* fallback assigned a
PatternAgreement(p) ==
    LET k == Len(p)
        tdu == Tdu(p)
        tu == Tu(p)
        u == UValue(k, tu, tdu)
        s == SumSeq(p)
        a0 == FMul(u.val, Spread(s, k))
    IN  IF MaxOf(p) > 1
        THEN [raised |-> PatternError, a |-> NaN, divzero |-> FALSE, nanfb |-> FALSE]
        ELSE IF u.zero
        THEN [raised |-> ZeroDivisionError, a |-> NaN, divzero |-> TRUE, nanfb |-> FALSE]
        ELSE [raised |-> NoError,
              a |-> SingleOverride(p, NaNFallback(a0)),
              divzero |-> (k - 1 = 0),
              nanfb |-> IsNaN(a0)]

\* --------------------------------------------------------------- agreement
LengthError ==
    [type |-> "ValueError", msg |-> "Length of vector < 3, agreement A is not defined."]
TypeError ==
    [type |-> "ValueError", msg |-> "Frequency vector must contain integers."]
NegativeValueError ==
    [type |-> "ValueError", msg |-> "Negative values found in frequency vector."]

\* mutant: the element type checked before the length
Validate_TypeFirst(inp) ==
    IF inp.dtype # "int" THEN TypeError
    ELSE IF Len(inp.elems) < 3 THEN LengthError
    ELSE IF MinOf(inp.elems) < 0 THEN NegativeValueError
    ELSE NoError

\* the three checks on the input, in the order of the code
Validate(inp) ==
    IF Len(inp.elems) < 3 THEN LengthError
    ELSE IF inp.dtype # "int" THEN TypeError
    ELSE IF MinOf(inp.elems) < 0 THEN NegativeValueError
    ELSE NoError

\* pattern vector of a remainder
Pattern(r) == [i \in 1..Len(r) |-> IF r[i] # 0 THEN 1 ELSE 0]

\* mutant: no break on an empty remainder
Exhausted_Never(p) == FALSE

\* the loop leaves by break
Exhausted(p) == MaxOf(p) = 0

\* mutant: the minimum taken without the non-zero mask
MinNonzero_Unmasked(r) == MinOf(r)

\* non-zero minimum of the remainder
MinNonzero(r) ==
    IF \E i \in 1..Len(r) : r[i] > 0
    THEN MinOf(SelectSeq(r, LAMBDA x : x > 0))
    ELSE 0

\* mutant: m in every category, the pattern ignored
LayerOf_Unmasked(p, m) == [i \in 1..Len(p) |-> m]

LayerOf(p, m) == [i \in 1..Len(p) |-> p[i] * m]

\* mutant: the layer total divided by the number of categories
Weight_PerCategory(layer, n) == NpDiv(SumSeq(layer), Len(layer))

\* weight of a layer
Weight(layer, n) == NpDiv(SumSeq(layer), n)

\* mutant: the pattern subtracted instead of the layer
Remainder_ByPattern(r, layer) ==
    [i \in 1..Len(r) |-> r[i] - (IF layer[i] # 0 THEN 1 ELSE 0)]

Remainder(r, layer) == [i \in 1..Len(r) |-> r[i] - layer[i]]

Accumulate(aa, w, a) == FAdd(aa, FMul(w, a))

\* ------------------------------------------------------------ one call
VARIABLES
    pc,       \* "call", "loop", "returned" or "raised"
    input,    \* the argument: its numpy dtype and its elements
    err,      \* the exception raised, NoError when none
    v, k, n, r, aa,   \* the locals of agreement
    it,       \* iterations of the for loop started so far
    layers,   \* history: p, a, m, layer, w of every iteration executed
    divzero,  \* history: some division had a zero divisor
    nanfb,    \* history: the NaN fallback of _pattern_agreement assigned a
    prev      \* <<>>, or the outcome of the call this one rescales

vars == <<pc, input, err, v, k, n, r, aa, it, layers, divzero, nanfb, prev>>

Vectors(len, vals) == [1..len -> vals]

\* a vector of length len that is g on the positions S and 0 elsewhere
Spread0(len, S, g) == [i \in 1..len |-> IF i \in S THEN g[i] ELSE 0]

DenseInputs ==
    {[dtype |-> d, elems |-> e] :
       d \in {"int", "float"},
       e \in UNION {Vectors(len, (0 - MaxNeg)..MaxVal) : len \in 0..MaxLen}}

SparseVectors(len) ==
    UNION {{Spread0(len, S, g) : g \in [S -> 1..MaxCount]} :
             S \in {T \in SUBSET (1..len) : Cardinality(T) <= MaxSupport}}

SparseInputs ==
    {[dtype |-> "int", elems |-> e] :
       e \in UNION {SparseVectors(len) : len \in (MaxLen + 1)..MaxK}}

Fresh ==
    /\ pc = "call"
    /\ err = NoError
    /\ v = <<>> /\ k = 0 /\ n = 0 /\ r = <<>> /\ aa = Zero(0)
    /\ it = 0 /\ layers = <<>>
    /\ divzero = FALSE /\ nanfb = FALSE

Init ==
    /\ input \in DenseInputs \cup SparseInputs
    /\ prev = <<>>
    /\ Fresh

\* lines 110-119: a check fails
Raise ==
    /\ pc = "call"
    /\ Validate(input) # NoError
    /\ pc' = "raised"
    /\ err' = Validate(input)
    /\ UNCHANGED <<input, v, k, n, r, aa, it, layers, divzero, nanfb, prev>>

\* lines 110-126: the checks pass, the locals are set.  v, r and n are
\* float64 holding integers; below 2^53 they are exact, so they are kept as
\* integers and only quotients, products and aa are rounded.
Enter ==
    /\ pc = "call"
    /\ Validate(input) = NoError
    /\ pc' = "loop"
    /\ v' = input.elems
    /\ aa' = Zero(0)
    /\ k' = Len(input.elems)
    /\ n' = SumSeq(input.elems)
    /\ r' = input.elems
    /\ UNCHANGED <<input, err, it, layers, divzero, nanfb, prev>>

\* lines 128-143: one iteration that does not break
Layer ==
    /\ pc = "loop"
    /\ it < k
    /\ ~Exhausted(Pattern(r))
    /\ LET p == Pattern(r)
           pa == PatternAgreement(p)
           m == MinNonzero(r)
           layer == LayerOf(p, m)
           w == Weight(layer, n)
       IN  IF pa.raised # NoError
           THEN /\ pc' = "raised"
                /\ err' = pa.raised
                /\ divzero' = (divzero \/ pa.divzero)
                /\ UNCHANGED <<aa, r, layers, nanfb>>
           ELSE /\ pc' = "loop"
                /\ err' = err
                /\ aa' = Accumulate(aa, w, pa.a)
                /\ r' = Remainder(r, layer)
                /\ layers' = Append(layers,
                                [p |-> p, a |-> pa.a, m |-> m, layer |-> layer, w |-> w])
                /\ divzero' = (divzero \/ pa.divzero \/ n = 0)
                /\ nanfb' = (nanfb \/ pa.nanfb)
    /\ it' = it + 1
    /\ UNCHANGED <<input, v, k, n, prev>>

\* lines 128, 131-132, 145: the loop ends, by break or after k iterations
Return ==
    /\ pc = "loop"
    /\ (it >= k \/ Exhausted(Pattern(r)))
    /\ pc' = "returned"
    /\ UNCHANGED <<input, err, v, k, n, r, aa, it, layers, divzero, nanfb, prev>>

Scaled(c, vec) == [i \in 1..Len(vec) |-> c * vec[i]]

\* the caller calls again, on the same vector scaled by c
Rescale ==
    /\ pc = "returned"
    /\ prev = <<>>
    /\ \E c \in 2..MaxScale :
         /\ input' = [dtype |-> "int", elems |-> Scaled(c, v)]
         /\ prev' = <<[c |-> c, v |-> v, n |-> n, aa |-> aa, layers |-> layers]>>
    /\ pc' = "call"
    /\ err' = NoError
    /\ v' = <<>> /\ k' = 0 /\ n' = 0 /\ r' = <<>> /\ aa' = Zero(0)
    /\ it' = 0 /\ layers' = <<>>
    /\ divzero' = FALSE /\ nanfb' = FALSE

Next == Raise \/ Enter \/ Layer \/ Return \/ Rescale

Spec == Init /\ [][Next]_vars

\* ------------------------------------------------------------ properties
Support(vec) == {i \in 1..Len(vec) : vec[i] # 0}

\* the call returned (only a vector that passed the checks gets here)
Returned == pc = "returned"

\* total of the layers peeled so far at position i
Peeled(i) == SumSeq([l \in 1..Len(layers) |-> layers[l].layer[i]])

\* total of the numerators np.sum(layer) of the weights
WeightNumerators == SumSeq([l \in 1..Len(layers) |-> SumSeq(layers[l].layer)])

\* the transition is an executed iteration of the loop
LayerStep == pc = "loop" /\ pc' = "loop" /\ it' = it + 1

\* C1: for every valid vector with sum > 0 the value returned is a finite
\* number A with -1 <= A <= 1.
C1_Range ==
    (Returned /\ n > 0) => (IsFinite(aa) /\ FLe(MinusOne, aa) /\ FLe(aa, One))

\* C2: a vector with all its mass in one category (c > 0 at one position,
\* 0 elsewhere) returns exactly 1.0, whatever k and the position.
C2_SingleCategory ==
    (Returned /\ Cardinality(Support(v)) = 1) => aa = One

C2_Witness ==
    /\ Returned
    /\ k >= 6
    /\ \E i \in 2..(k - 1) : Support(v) = {i} /\ v[i] >= 2
    /\ aa = One

\* C3: c in the first category, c in the last and 0 between them returns
\* exactly -1.0, for every k >= 3 and c > 0.
C3_Bimodal ==
    (Returned /\ Support(v) = {1, k} /\ v[1] = v[k]) => aa = MinusOne

\* C4: a vector whose k entries all equal c >= 0 returns 0.0.
C4_Uniform ==
    (Returned /\ \A i \in 1..k : v[i] = v[1]) => IsZero(aa)

C4_Witness ==
    /\ Returned
    /\ v[1] >= 2
    /\ \A i \in 1..k : v[i] = v[1]
    /\ Len(layers) = 1
    /\ IsZero(aa)

\* C5: scaling a valid vector with sum > 0 by a positive integer c leaves
\* the result unchanged: the layer patterns are the same, each layer weight
\* is the same fraction, and so is the value returned.
C5_ScaleInvariant ==
    (Returned /\ prev # <<>> /\ n > 0) =>
        LET q == prev[1] IN
        /\ v = Scaled(q.c, q.v)
        /\ Len(layers) = Len(q.layers)
        /\ \A l \in 1..Len(layers) :
             /\ layers[l].p = q.layers[l].p
             /\ SumSeq(layers[l].layer) * q.n = SumSeq(q.layers[l].layer) * n
             /\ layers[l].w = q.layers[l].w
        /\ aa = q.aa

C5_Witness ==
    /\ Returned
    /\ prev # <<>>
    /\ n > 0
    /\ prev[1].c >= 2
    /\ Len(layers) >= 2
    /\ aa = prev[1].aa
    /\ ~IsZero(aa)

\* C6: the input is rejected before any layer is computed, with the error
\* of the first failing check: length below 3, else element type not
\* integer, else a negative element; an input passing all three raises none.
C6_ValidationOrder ==
    pc # "call" =>
        /\ Len(input.elems) < 3 => (pc = "raised" /\ err = LengthError)
        /\ (Len(input.elems) >= 3 /\ input.dtype # "int") =>
               (pc = "raised" /\ err = TypeError)
        /\ (Len(input.elems) >= 3 /\ input.dtype = "int"
              /\ \E i \in 1..Len(input.elems) : input.elems[i] < 0) =>
               (pc = "raised" /\ err = NegativeValueError)
        /\ (Len(input.elems) >= 3 /\ input.dtype = "int"
              /\ \A i \in 1..Len(input.elems) : input.elems[i] >= 0) =>
               (pc # "raised" /\ err = NoError)
        /\ pc = "raised" => (it = 0 /\ layers = <<>> /\ aa = Zero(0))

C6_Witness ==
    /\ pc = "raised"
    /\ err = LengthError
    /\ Len(input.elems) = 2
    /\ input.dtype = "float"
    /\ input.elems[1] < 0

\* C7: the loop executes at most k iterations and the remainder is all zero
\* when it ends; every executed iteration turns a positive remainder entry
\* into zero and never turns a zero entry non-zero.
C7_State ==
    /\ it <= k
    /\ Len(layers) <= k
    /\ Returned => \A i \in 1..k : r[i] = 0

C7_Step ==
    LayerStep =>
        /\ \E i \in 1..k : r[i] > 0 /\ r'[i] = 0
        /\ \A i \in 1..k : r[i] = 0 => r'[i] = 0

\* C7: the state part in every state, the step part on every transition
C7_Termination == [](C7_State) /\ [][C7_Step]_vars

C7_Witness ==
    /\ Returned
    /\ it = k
    /\ Len(layers) = k
    /\ \A i \in 1..k : r[i] = 0

\* C8: the layers peeled so far plus the remainder add up, component by
\* component, to the original vector, and when the call returns from a
\* vector with sum n > 0 the layer weights np.sum(layer) / n add up to 1.
C8_WeightsSumToOne ==
    /\ pc \in {"loop", "returned"} => \A i \in 1..k : Peeled(i) + r[i] = v[i]
    /\ \A l \in 1..Len(layers) :
         layers[l].w = NpDiv(SumSeq(layers[l].layer), n)
    /\ (Returned /\ n > 0) => WeightNumerators = n

C8_Witness ==
    /\ Returned
    /\ n > 0
    /\ Len(layers) >= 3
    /\ WeightNumerators = n

\* C9: every remainder entry stays between 0 and the entry of the original
\* vector, and every executed iteration strictly decreases the total of
\* the remainder.
C9_State == pc \in {"loop", "returned"} => \A i \in 1..k : 0 <= r[i] /\ r[i] <= v[i]

C9_Step == LayerStep => SumSeq(r') < SumSeq(r)

\* C9: the bounds in every state, the decrease on every transition
C9_Remainder == [](C9_State) /\ [][C9_Step]_vars

C9_Witness ==
    /\ pc = "loop"
    /\ Len(layers) >= 2
    /\ SumSeq(r) > 0
    /\ SumSeq(r) < n
    /\ \E i \in 1..k : r[i] > 0 /\ r[i] < v[i]

\* C10: on a valid vector, the all-zero one included, no division has a
\* zero divisor and the NaN fallback never assigns a layer's agreement.
C10_NoZeroDivision ==
    /\ ~divzero
    /\ ~nanfb
    /\ err # ZeroDivisionError
    /\ IsFinite(aa)
    /\ \A l \in 1..Len(layers) : IsFinite(layers[l].a) /\ IsFinite(layers[l].w)

C10_Witness ==
    /\ Returned
    /\ k >= 3
    /\ n = 0
    /\ layers = <<>>
    /\ ~divzero

====
